---- MODULE Spec2Model ----
(***************************************************************************)
(* ezrecords (src/core.py): a record log with an out-of-band index file.   *)
(* Files are byte sequences; every operation of IndexFile, make_dataset    *)
(* and IndexedRecordDataset is translated statement by statement into an   *)
(* operator on the file system, and one action applies each of them.       *)
(***************************************************************************)
EXTENDS Integers, Sequences, FiniteSets, TLC

VARIABLES fs,      \* the disk: a function from the paths that exist to their bytes
          ds,      \* the dataset handle (path, index path, serializers, deserializers)
          alist,   \* the abstract list the caller believes the dataset to hold
          last,    \* the operation that ran last, its arguments and its outcome
          nops,    \* number of operations run so far
          memory,  \* whether the interpreter can allocate a read buffer of 16 MiB or more
          call,    \* the append in progress when its statements are run one by one
          iter     \* the iterator a caller holds on the dataset

vars == <<fs, ds, alist, last, nops, memory, call, iter>>

----------------------------------------------------------------------------
(* Bounds of the exploration                                               *)

MaxOps == 4
MaxBuild == 2
MaxErrOps == 3

----------------------------------------------------------------------------
(* Python values                                                           *)

None == <<>>
Some(x) == <<x>>
IsNone(o) == o = <<>>
Val(o) == o[1]

Min(a, b) == IF a < b THEN a ELSE b
Max(a, b) == IF a < b THEN b ELSE a

RECURSIVE Concat(_)
Concat(ss) == IF ss = <<>> THEN <<>> ELSE Head(ss) \o Concat(Tail(ss))

----------------------------------------------------------------------------
(* struct                                                                  *)

RESERVED_SPACE == 1024
RESERVED_BYTES == [i \in 1..RESERVED_SPACE |-> 0]

RECURSIVE le_bytes(_, _)
le_bytes(n, k) == IF k = 0 THEN <<>> ELSE <<n % 256>> \o le_bytes(n \div 256, k - 1)

\* struct.pack("<Q", n) raises struct.error outside 0 .. 2^64-1; the model
\* never holds a number near 2^64, so only the sign can be out of range.
pack_Q_ok(n) == n >= 0
pack_Q(n) == le_bytes(n, 8)

RECURSIVE le_value(_)
le_value(b) == IF b = <<>> THEN 0 ELSE Head(b) + 256 * le_value(Tail(b))

\* Values are exact below 2^24; anything larger reads as Huge, which is past
\* the end of every file of the model: a seek that far sees no byte, and a read
\* of that many bytes returns what is left of the file when the interpreter
\* can allocate the buffer and raises MemoryError when it cannot.
Huge == 256 * 256 * 256

\* struct.unpack("<Q", b) raises struct.error unless b holds exactly 8 bytes.
unpack_Q_ok(b) == Len(b) = 8
unpack_Q(b) == IF \E k \in 4..8 : b[k] # 0 THEN Huge ELSE le_value(SubSeq(b, 1, 3))

----------------------------------------------------------------------------
(* Files: os.path.isfile, open, seek + read, seek + write, truncate        *)

isfile(f, p) == p \in DOMAIN f

\* open(p, "wb") or a completed rewrite: p now holds exactly data
put(f, p, data) == [q \in (DOMAIN f) \cup {p} |-> IF q = p THEN data ELSE f[q]]

\* io.seek(pos); io.read(n): short at end of file, empty past it
read_at(data, pos, n) == SubSeq(data, pos + 1, Min(pos + n, Len(data)))

\* f.seek(pos); f.write(b): overwrites in place, zero-fills a gap past the end
write_at(data, pos, b) ==
    [i \in 1..Max(Len(data), pos + Len(b)) |->
        IF i > pos /\ i <= pos + Len(b) THEN b[i - pos]
        ELSE IF i <= Len(data) THEN data[i] ELSE 0]

\* os.path.splitext(path)[0] + ".idx"
splitext_idx(path) ==
    CASE path = "d.rec"   -> "d.idx"
      [] path = "d.bin"   -> "d.idx"
      [] path = "out.rec" -> "out.idx"

----------------------------------------------------------------------------
(* Results of an operation that can raise: ok, the exception's name, and   *)
(* the disk or value it leaves                                             *)

Raised(e, f) == [ok |-> FALSE, err |-> e, fs |-> f]
Done(f) == [ok |-> TRUE, err |-> "", fs |-> f]

----------------------------------------------------------------------------
(* class IndexFile                                                         *)

\* IndexFile.write(offsets)
IndexFile_write(f, p, offsets) ==
    put(f, p, pack_Q(Len(offsets)) \o
              Concat([k \in 1..Len(offsets) |-> pack_Q(offsets[k])]))

\* IndexFile.__len__()
IndexFile_len(f, p) ==
    IF ~isfile(f, p) THEN [ok |-> TRUE, err |-> "", n |-> 0]
    ELSE LET b == read_at(f[p], 0, 8) IN
         IF unpack_Q_ok(b) THEN [ok |-> TRUE, err |-> "", n |-> unpack_Q(b)]
         ELSE [ok |-> FALSE, err |-> "struct.error", n |-> 0]

\* IndexFile.__getitem__ without its assert
IndexFile_getitem_unchecked(f, p, idx) ==
    IF ~isfile(f, p) THEN [ok |-> FALSE, err |-> "FileNotFoundError", offset |-> 0]
    ELSE LET b == read_at(f[p], (idx + 1) * 8, 8) IN
         IF unpack_Q_ok(b) THEN [ok |-> TRUE, err |-> "", offset |-> unpack_Q(b)]
         ELSE [ok |-> FALSE, err |-> "struct.error", offset |-> 0]

\* IndexFile.__getitem__ seeking to idx * 8: the count's slot is taken for entry 0
IndexFile_getitem_seek(f, p, idx) ==
    LET l == IndexFile_len(f, p) IN
    IF ~l.ok THEN [ok |-> FALSE, err |-> l.err, offset |-> 0]
    ELSE IF ~(idx < l.n) THEN [ok |-> FALSE, err |-> "AssertionError", offset |-> 0]
    ELSE IF ~isfile(f, p) THEN [ok |-> FALSE, err |-> "FileNotFoundError", offset |-> 0]
    ELSE LET b == read_at(f[p], idx * 8, 8) IN
         IF unpack_Q_ok(b) THEN [ok |-> TRUE, err |-> "", offset |-> unpack_Q(b)]
         ELSE [ok |-> FALSE, err |-> "struct.error", offset |-> 0]

\* IndexFile.__getitem__(idx)
IndexFile_getitem(f, p, idx) ==
    LET l == IndexFile_len(f, p) IN
    IF ~l.ok THEN [ok |-> FALSE, err |-> l.err, offset |-> 0]
    ELSE IF ~(idx < l.n) THEN [ok |-> FALSE, err |-> "AssertionError", offset |-> 0]
    ELSE IF ~isfile(f, p) THEN [ok |-> FALSE, err |-> "FileNotFoundError", offset |-> 0]
    ELSE LET b == read_at(f[p], (idx + 1) * 8, 8) IN
         IF unpack_Q_ok(b) THEN [ok |-> TRUE, err |-> "", offset |-> unpack_Q(b)]
         ELSE [ok |-> FALSE, err |-> "struct.error", offset |-> 0]

\* IndexFile.append that adds the entry and leaves the stored count as it was
IndexFile_append_nocount(f, p, idx) ==
    LET l == IndexFile_len(f, p) IN
    IF ~l.ok THEN Raised(l.err, f)
    ELSE LET n == l.n
             opened == IF n = 0 THEN <<>> ELSE f[p]
             counted == write_at(opened, 0, pack_Q(n))
             added == write_at(counted, Len(counted), pack_Q(idx))
         IN  Done(put(f, p, added))

\* IndexFile.append(idx)
IndexFile_append(f, p, idx) ==
    LET l == IndexFile_len(f, p) IN
    IF ~l.ok THEN Raised(l.err, f)
    ELSE LET n == l.n
             opened == IF n = 0 THEN <<>> ELSE f[p]            \* "wb" truncates
             counted == write_at(opened, 0, pack_Q(n + 1))
             added == write_at(counted, Len(counted), pack_Q(idx))
         IN  Done(put(f, p, added))

\* an ordered removal: the entries after position i move down by one
IndexFile_quick_remove_at_shift(f, p, i) ==
    LET l == IndexFile_len(f, p) IN
    IF ~l.ok THEN Raised(l.err, f)
    ELSE IF ~isfile(f, p) THEN Raised("FileNotFoundError", f)
    ELSE IF Len(f[p]) < 8 THEN Raised("OSError", f)
    ELSE LET n == l.n
             kept == SubSeq(f[p], 9, 8 * (Min(i, n - 1) + 1)) \o
                     SubSeq(f[p], 8 * (Min(i, n - 1) + 2) + 1, Len(f[p]))
         IN  IF ~pack_Q_ok(n - 1) THEN Raised("struct.error", put(f, p, <<>>))
             ELSE Done(put(f, p, pack_Q(n - 1) \o kept))

\* IndexFile.quick_remove_at without the overwrite of position i
IndexFile_quick_remove_at_noswap(f, p, i) ==
    LET l == IndexFile_len(f, p) IN
    IF ~l.ok THEN Raised(l.err, f)
    ELSE IF ~isfile(f, p) THEN Raised("FileNotFoundError", f)
    ELSE IF Len(f[p]) < 8 THEN Raised("OSError", f)
    ELSE LET n == l.n
             truncated == SubSeq(f[p], 1, Len(f[p]) - 8)
         IN  IF ~pack_Q_ok(n - 1) THEN Raised("struct.error", put(f, p, truncated))
             ELSE Done(put(f, p, write_at(truncated, 0, pack_Q(n - 1))))

\* IndexFile.quick_remove_at behind the assert that __getitem__ has
IndexFile_quick_remove_at_checked(f, p, i) ==
    LET l == IndexFile_len(f, p) IN
    IF ~l.ok THEN Raised(l.err, f)
    ELSE IF ~(i < l.n) THEN Raised("AssertionError", f)
    ELSE IF ~isfile(f, p) THEN Raised("FileNotFoundError", f)
    ELSE LET n == l.n
             size == Len(f[p])
             buffer == read_at(f[p], size - 8, 8)
             truncated == SubSeq(f[p], 1, size - 8)
             swapped == IF i < n - 1 THEN write_at(truncated, 8 * (i + 1), buffer)
                        ELSE truncated
         IN  Done(put(f, p, write_at(swapped, 0, pack_Q(n - 1))))

\* IndexFile.quick_remove_at(i)
IndexFile_quick_remove_at(f, p, i) ==
    LET l == IndexFile_len(f, p) IN
    IF ~l.ok THEN Raised(l.err, f)
    ELSE IF ~isfile(f, p) THEN Raised("FileNotFoundError", f)
    ELSE IF Len(f[p]) < 8 THEN Raised("OSError", f)
    ELSE LET n == l.n
             size == Len(f[p])
             buffer == read_at(f[p], size - 8, 8)
             truncated == SubSeq(f[p], 1, size - 8)
             swapped == IF i < n - 1 THEN write_at(truncated, 8 * (i + 1), buffer)
                        ELSE truncated
         IN  IF ~pack_Q_ok(n - 1) THEN Raised("struct.error", put(f, p, swapped))
             ELSE Done(put(f, p, write_at(swapped, 0, pack_Q(n - 1))))

\* IndexFile.__setitem__ seeking one slot too far
IndexFile_setitem_next(f, p, i, v) ==
    IF ~isfile(f, p) THEN Raised("FileNotFoundError", f)
    ELSE Done(put(f, p, write_at(f[p], 8 * (i + 2), pack_Q(v))))

\* IndexFile.__setitem__(i, v)
IndexFile_setitem(f, p, i, v) ==
    IF ~isfile(f, p) THEN Raised("FileNotFoundError", f)
    ELSE Done(put(f, p, write_at(f[p], 8 * (i + 1), pack_Q(v))))

----------------------------------------------------------------------------
(* The caller's codecs, by position: "int" is struct.pack("<Q", x) and its *)
(* inverse, "str" is UTF-8, "id" is the identity lambda of defrag.         *)
(* A str is its sequence of code points below 2048.                        *)

utf8_char(cp) == IF cp < 128 THEN <<cp>> ELSE <<192 + (cp \div 64), 128 + (cp % 64)>>
utf8_encode(s) == Concat([k \in 1..Len(s) |-> utf8_char(s[k])])

RECURSIVE utf8_decode(_)
utf8_decode(b) ==
    IF b = <<>> THEN [ok |-> TRUE, v |-> <<>>]
    ELSE IF b[1] < 128 THEN
        LET rest == utf8_decode(Tail(b)) IN
        [ok |-> rest.ok, v |-> IF rest.ok THEN <<b[1]>> \o rest.v ELSE <<>>]
    ELSE IF b[1] >= 194 /\ b[1] < 224 /\ Len(b) >= 2 /\ b[2] >= 128 /\ b[2] < 192 THEN
        LET rest == utf8_decode(Tail(Tail(b))) IN
        [ok |-> rest.ok,
         v |-> IF rest.ok THEN <<(b[1] - 192) * 64 + (b[2] - 128)>> \o rest.v ELSE <<>>]
    ELSE [ok |-> FALSE, v |-> <<>>]

decoded(v) == [ok |-> TRUE, err |-> "", v |-> v]

serialize(codec, v) ==
    CASE codec = "int" -> pack_Q(v)
      [] codec = "str" -> utf8_encode(v)
      [] codec = "id"  -> v

\* what the encoder raises on v: struct.pack on a negative int, str.encode on
\* a lone surrogate ("" when it returns)
serialize_err(codec, v) ==
    CASE codec = "int" -> IF pack_Q_ok(v) THEN "" ELSE "struct.error"
      [] codec = "str" -> IF \E k \in 1..Len(v) : v[k] >= 55296 /\ v[k] <= 57343
                          THEN "UnicodeEncodeError" ELSE ""
      [] codec = "id"  -> ""

\* what [serialize(items[i]) for i, serialize in enumerate(serializers)] raises:
\* the error of the first field whose encoder fails ("" when none does)
RECURSIVE encode_err(_, _)
encode_err(serializers, items) ==
    IF serializers = <<>> THEN ""
    ELSE LET e == serialize_err(Head(serializers), Head(items)) IN
         IF e # "" THEN e ELSE encode_err(Tail(serializers), Tail(items))

deserialize(codec, b) ==
    CASE codec = "int" -> IF unpack_Q_ok(b) THEN decoded(unpack_Q(b))
                          ELSE [ok |-> FALSE, err |-> "struct.error", v |-> 0]
      [] codec = "str" -> LET u == utf8_decode(b) IN
                          IF u.ok THEN decoded(u.v)
                          ELSE [ok |-> FALSE, err |-> "UnicodeDecodeError", v |-> <<>>]
      [] codec = "id"  -> decoded(b)

\* a block laid out with its payloads ahead of its field lengths
record_block_payloads_first(serializers, items) ==
    LET items_bin == [k \in 1..Len(serializers) |-> serialize(serializers[k], items[k])]
        headers_bin == [k \in 1..Len(serializers) |-> pack_Q(Len(items_bin[k]))]
    IN  Concat(items_bin) \o Concat(headers_bin)

\* The block of one record: the field lengths, then the payloads
\* (make_dataset lines 108-119, append lines 191-203)
record_block(serializers, items) ==
    LET items_bin == [k \in 1..Len(serializers) |-> serialize(serializers[k], items[k])]
        headers_bin == [k \in 1..Len(serializers) |-> pack_Q(Len(items_bin[k]))]
    IN  Concat(headers_bin) \o Concat(items_bin)

----------------------------------------------------------------------------
(* class IndexedRecordDataset: reading                                     *)

\* IndexedRecordDataset.__init__
Dataset(path, deserializers, serializers) ==
    [path |-> path, index_path |-> splitext_idx(path),
     deserializers |-> deserializers, serializers |-> serializers]

\* IndexedRecordDataset.__len__()
Dataset_len(f, d) == IndexFile_len(f, d.index_path)

NoItems(e) == [ok |-> FALSE, err |-> e, items |-> <<>>]

\* deserializers[i](io.read(n)) for each n of lens, one field after the other
\* from pos (line 180)
RECURSIVE read_fields(_, _, _, _)
read_fields(data, pos, lens, deserializers) ==
    IF lens = <<>> THEN [ok |-> TRUE, err |-> "", items |-> <<>>]
    ELSE IF Head(lens) >= Huge /\ memory = "short" THEN NoItems("MemoryError")
    ELSE LET b == read_at(data, pos, Head(lens))
             v == deserialize(Head(deserializers), b)
         IN  IF ~v.ok THEN NoItems(v.err)
             ELSE LET rest == read_fields(data, pos + Len(b), Tail(lens), Tail(deserializers))
                  IN  IF ~rest.ok THEN rest
                      ELSE [ok |-> TRUE, err |-> "", items |-> <<v.v>> \o rest.items]

\* IndexedRecordDataset.__getitem__(idx)
Dataset_getitem(f, d, idx) ==
    IF IsNone(d.deserializers) THEN NoItems("AssertionError")
    ELSE LET o == IndexFile_getitem(f, d.index_path, idx)
             deserializers == Val(d.deserializers)
             N == Len(deserializers)
         IN
         IF ~o.ok THEN NoItems(o.err)
         ELSE IF ~isfile(f, d.path) THEN NoItems("FileNotFoundError")
         ELSE LET data == f[d.path]
                  heads == [k \in 1..N |-> read_at(data, o.offset + 8 * (k - 1), 8)]
              IN
              IF \E k \in 1..N : ~unpack_Q_ok(heads[k]) THEN NoItems("struct.error")
              ELSE read_fields(data, o.offset + 8 * N,
                               [k \in 1..N |-> unpack_Q(heads[k])], deserializers)

----------------------------------------------------------------------------
(* make_dataset.  record_iters is either a list of records or the lazy     *)
(* iterator of a dataset (defrag); the latter reads the disk while the     *)
(* output is open.  The output is opened "wb", so it is empty on disk from *)
(* the open on; what is written stays in the writer's buffer (far below    *)
(* io.DEFAULT_BUFFER_SIZE in this model) and reaches the disk at the close *)
(* that ends the with block, also when an exception leaves it.             *)

ListIter(records) == [kind |-> "list", records |-> records, ref |-> None]
DatasetIter(d) == [kind |-> "dataset", records |-> <<>>, ref |-> Some(d)]

\* range(len(self)) of IndexedRecordDataset.__iter__, or the list's length
iter_len(f, it) ==
    IF it.kind = "list" THEN [ok |-> TRUE, err |-> "", n |-> Len(it.records)]
    ELSE Dataset_len(f, Val(it.ref))

\* the i-th item the iterator yields
iter_item(f, it, i) ==
    IF it.kind = "list" THEN [ok |-> TRUE, err |-> "", items |-> it.records[i + 1]]
    ELSE Dataset_getitem(f, Val(it.ref), i)

\* the for loop of make_dataset with io.tell() taken after the block is written
RECURSIVE write_records_late(_, _, _, _, _, _, _)
write_records_late(f, it, serializers, i, n, buf, indices) ==
    IF i >= n THEN [ok |-> TRUE, err |-> "", buf |-> buf, indices |-> indices]
    ELSE LET item == iter_item(f, it, i) IN
         IF ~item.ok THEN [ok |-> FALSE, err |-> item.err, buf |-> buf, indices |-> indices]
         ELSE IF encode_err(serializers, item.items) # ""
         THEN [ok |-> FALSE, err |-> encode_err(serializers, item.items),
               buf |-> buf, indices |-> indices]
         ELSE LET written == buf \o record_block(serializers, item.items)
              IN  write_records_late(f, it, serializers, i + 1, n, written,
                                     Append(indices, Len(written)))

\* the for loop of make_dataset (lines 106-119) from its i-th round on
RECURSIVE write_records(_, _, _, _, _, _, _)
write_records(f, it, serializers, i, n, buf, indices) ==
    IF i >= n THEN [ok |-> TRUE, err |-> "", buf |-> buf, indices |-> indices]
    ELSE LET item == iter_item(f, it, i) IN
         IF ~item.ok THEN [ok |-> FALSE, err |-> item.err, buf |-> buf, indices |-> indices]
         ELSE IF encode_err(serializers, item.items) # ""
         THEN [ok |-> FALSE, err |-> encode_err(serializers, item.items),
               buf |-> buf, indices |-> indices]
         ELSE write_records(f, it, serializers, i + 1, n,
                            buf \o record_block(serializers, item.items),
                            Append(indices, Len(buf)))

\* make_dataset without the reserved header
make_dataset_bare(f, it, output, serializers, index_path) ==
    LET opened == put(f, output, <<>>)
        n == iter_len(opened, it)
    IN
    IF ~n.ok THEN Raised(n.err, opened)
    ELSE LET w == write_records(opened, it, serializers, 0, n.n, <<>>, <<>>)
             closed == put(opened, output, w.buf)
             ip == IF IsNone(index_path) THEN splitext_idx(output) ELSE Val(index_path)
         IN  IF ~w.ok THEN Raised(w.err, closed)
             ELSE Done(IndexFile_write(closed, ip, w.indices))

make_dataset(f, it, output, serializers, index_path) ==
    LET opened == put(f, output, <<>>)
        n == iter_len(opened, it)
    IN
    IF ~n.ok THEN Raised(n.err, put(opened, output, RESERVED_BYTES))
    ELSE LET w == write_records(opened, it, serializers, 0, n.n, RESERVED_BYTES, <<>>)
             closed == put(opened, output, w.buf)
             ip == IF IsNone(index_path) THEN splitext_idx(output) ELSE Val(index_path)
         IN  IF ~w.ok THEN Raised(w.err, closed)
             ELSE Done(IndexFile_write(closed, ip, w.indices))

----------------------------------------------------------------------------
(* class IndexedRecordDataset: writing                                     *)

\* IndexedRecordDataset.quick_remove_at(i)
Dataset_quick_remove_at(f, d, i) == IndexFile_quick_remove_at(f, d.index_path, i)

\* IndexedRecordDataset.append that recreates the log up to length 1
Dataset_append_reset(f, d, items) ==
    LET l == IF isfile(f, d.path) THEN Dataset_len(f, d)
             ELSE [ok |-> TRUE, err |-> "", n |-> 0]
    IN
    IF ~l.ok THEN Raised(l.err, f)
    ELSE LET reset == IF ~isfile(f, d.path) \/ l.n <= 1
                      THEN put(f, d.path, RESERVED_BYTES) ELSE f
         IN
         IF IsNone(d.serializers) THEN Raised("AssertionError", reset)
         ELSE IF encode_err(Val(d.serializers), items) # ""
         THEN Raised(encode_err(Val(d.serializers), items), reset)
         ELSE LET block == record_block(Val(d.serializers), items)
                  idx == Len(reset[d.path])
                  indexed == IndexFile_append(reset, d.index_path, idx)
              IN  IF ~indexed.ok THEN indexed
                  ELSE Done(put(indexed.fs, d.path, indexed.fs[d.path] \o block))

\* IndexedRecordDataset.append with io.tell() taken after the block is written
Dataset_append_late(f, d, items) ==
    LET l == IF isfile(f, d.path) THEN Dataset_len(f, d)
             ELSE [ok |-> TRUE, err |-> "", n |-> 0]
    IN
    IF ~l.ok THEN Raised(l.err, f)
    ELSE LET reset == IF ~isfile(f, d.path) \/ l.n = 0
                      THEN put(f, d.path, RESERVED_BYTES) ELSE f
         IN
         IF IsNone(d.serializers) THEN Raised("AssertionError", reset)
         ELSE IF encode_err(Val(d.serializers), items) # ""
         THEN Raised(encode_err(Val(d.serializers), items), reset)
         ELSE LET block == record_block(Val(d.serializers), items)
                  idx == Len(reset[d.path] \o block)
                  indexed == IndexFile_append(reset, d.index_path, idx)
              IN  IF ~indexed.ok THEN indexed
                  ELSE Done(put(indexed.fs, d.path, indexed.fs[d.path] \o block))

\* IndexedRecordDataset.append that creates the log only when it is missing
Dataset_append_keep(f, d, items) ==
    LET l == IF isfile(f, d.path) THEN Dataset_len(f, d)
             ELSE [ok |-> TRUE, err |-> "", n |-> 0]
    IN
    IF ~l.ok THEN Raised(l.err, f)
    ELSE LET reset == IF ~isfile(f, d.path)
                      THEN put(f, d.path, RESERVED_BYTES) ELSE f
         IN
         IF IsNone(d.serializers) THEN Raised("AssertionError", reset)
         ELSE IF encode_err(Val(d.serializers), items) # ""
         THEN Raised(encode_err(Val(d.serializers), items), reset)
         ELSE LET block == record_block(Val(d.serializers), items)
                  idx == Len(reset[d.path])
                  indexed == IndexFile_append(reset, d.index_path, idx)
              IN  IF ~indexed.ok THEN indexed
                  ELSE Done(put(indexed.fs, d.path, indexed.fs[d.path] \o block))

\* IndexedRecordDataset.append(items)
Dataset_append(f, d, items) ==
    LET l == IF isfile(f, d.path) THEN Dataset_len(f, d)
             ELSE [ok |-> TRUE, err |-> "", n |-> 0]
    IN
    IF ~l.ok THEN Raised(l.err, f)
    ELSE LET reset == IF ~isfile(f, d.path) \/ l.n = 0
                      THEN put(f, d.path, RESERVED_BYTES) ELSE f
         IN
         IF IsNone(d.serializers) THEN Raised("AssertionError", reset)
         ELSE IF encode_err(Val(d.serializers), items) # ""
         THEN Raised(encode_err(Val(d.serializers), items), reset)
         ELSE LET block == record_block(Val(d.serializers), items)
                  idx == Len(reset[d.path])
                  indexed == IndexFile_append(reset, d.index_path, idx)
              IN  IF ~indexed.ok THEN indexed
                  ELSE Done(put(indexed.fs, d.path, indexed.fs[d.path] \o block))

\* IndexedRecordDataset.defrag as a copy of the log and the index, orphans included
Dataset_defrag_copy(f, d, output_file) ==
    IF IsNone(d.deserializers) THEN Raised("TypeError", f)
    ELSE IF ~isfile(f, d.path) \/ ~isfile(f, d.index_path)
         THEN make_dataset(f, ListIter(<<>>), output_file, <<>>, None)
         ELSE Done(put(put(f, output_file, f[d.path]),
                       splitext_idx(output_file), f[d.index_path]))

\* IndexedRecordDataset.defrag(output_file)
Dataset_defrag(f, d, output_file) ==
    IF IsNone(d.deserializers) THEN Raised("TypeError", f)
    ELSE LET identity == [k \in 1..Len(Val(d.deserializers)) |-> "id"]
             ref_data == [d EXCEPT !.deserializers = Some(identity)]
         IN  make_dataset(f, DatasetIter(ref_data), output_file, identity, None)

----------------------------------------------------------------------------
(* IndexedRecordDataset.__iter__: iter(self[i] for i in range(len(self))). *)
(* range(len(self)) is evaluated when the generator is created; self[i] is *)
(* evaluated at each next().                                               *)

\* next() of a generator that was not there to resume
StopIteration == NoItems("StopIteration")

\* a generator that ends quietly at the current length
Dataset_next_clamped(f, d, n, i) ==
    IF i >= n \/ (Dataset_len(f, d).ok /\ i >= Dataset_len(f, d).n) THEN StopIteration
    ELSE Dataset_getitem(f, d, i)

\* next() on the generator whose range is 0..n-1 and whose next position is i
Dataset_next(f, d, n, i) ==
    IF i >= n THEN StopIteration ELSE Dataset_getitem(f, d, i)

----------------------------------------------------------------------------
(* The callers of the model: one dataset at d.rec, whose codec lists are   *)
(* chosen at construction, and the records they hold                       *)

PATH == "d.rec"
OUT == "out.rec"

CodecLists == {<<>>, <<"str">>, <<"int", "str">>}

Records(codecs) ==
    CASE codecs = <<>>             -> {<<>>}
      [] codecs = <<"str">>        -> {<< <<>> >>, << <<233>> >>}
      [] codecs = <<"int", "str">> -> {<<1, <<97>>>>, <<300, <<233>>>>}

RecordLists(codecs) ==
    UNION {[1..k -> Records(codecs)] : k \in 0..MaxBuild}

arity == Len(Val(ds.deserializers))

Op(op, ok, err, n, i, items, out, recs) ==
    [op |-> op, ok |-> ok, err |-> err, n |-> n, i |-> i,
     items |-> items, out |-> out, recs |-> recs, prev |-> last.op]

\* the length a caller sees before an operation (-1 when length() raises)
SeenLen(f, d) == LET l == Dataset_len(f, d) IN IF l.ok THEN l.n ELSE -1

\* a list's quick_remove_at: element i becomes the last one, the last is dropped
swap_remove(s, i) ==
    [k \in 1..(Len(s) - 1) |-> IF k = i + 1 THEN s[Len(s)] ELSE s[k]]

\* no append is in progress; no iterator has been created
NoCall == [pc |-> "idle", items |-> <<>>, idx |-> 0, before |-> <<>>]
NoIter == [state |-> "none", n |-> 0, i |-> 0, seen |-> <<>>, again |-> None,
           new |-> {}, removed |-> FALSE, mutated |-> FALSE]

Init ==
    /\ fs = [q \in {} |-> <<>>]
    /\ ds \in {Dataset(PATH, Some(c), Some(c)) : c \in CodecLists}
    /\ alist = [valid |-> TRUE, items |-> <<>>]
    /\ last = [op |-> "init", ok |-> TRUE, err |-> "", n |-> 0, i |-> 0,
               items |-> <<>>, out |-> "", recs |-> <<>>, prev |-> ""]
    /\ nops = 0
    /\ memory \in {"ample", "short"}
    /\ call = NoCall
    /\ iter = NoIter

\* make_dataset(records, "d.rec", serializers): the pair is built at most once,
\* before the handle's operations; a dataset that is never built starts from
\* absent files
Build ==
    /\ nops = 0
    /\ \E recs \in RecordLists(Val(ds.serializers)) :
          LET r == make_dataset(fs, ListIter(recs), ds.path, Val(ds.serializers), None)
          IN  /\ fs' = r.fs
              /\ alist' = [valid |-> r.ok, items |-> IF r.ok THEN recs ELSE <<>>]
              /\ last' = Op("build", r.ok, r.err, SeenLen(fs, ds), 0, <<>>, "", recs)
    /\ nops' = nops + 1
    /\ UNCHANGED <<ds, memory, call, iter>>

\* dataset.append(items), whatever the caller's generator makes of it
AppendCall ==
    /\ nops < MaxOps
    /\ \E items \in Records(Val(ds.serializers)) :
          LET r == Dataset_append(fs, ds, items)
          IN  /\ fs' = r.fs
              /\ alist' = IF alist.valid /\ r.ok
                          THEN [alist EXCEPT !.items = Append(@, items)]
                          ELSE [valid |-> FALSE, items |-> <<>>]
              /\ last' = Op("append", r.ok, r.err, SeenLen(fs, ds), 0, items, "", <<>>)
    /\ nops' = nops + 1
    /\ UNCHANGED <<ds, memory, call>>

\* dataset.append(items)
DoAppend == AppendCall /\ UNCHANGED iter

\* dataset.quick_remove_at(i), for every position and the first one out of range
QuickRemoveAtCall ==
    /\ nops < MaxOps
    /\ \E i \in 0..Max(SeenLen(fs, ds), 0) :
          LET r == Dataset_quick_remove_at(fs, ds, i)
          IN  /\ fs' = r.fs
              /\ alist' = IF alist.valid /\ r.ok /\ i < Len(alist.items)
                          THEN [alist EXCEPT !.items = swap_remove(@, i)]
                          ELSE [valid |-> FALSE, items |-> <<>>]
              /\ last' = Op("quick_remove_at", r.ok, r.err, SeenLen(fs, ds), i, <<>>, "", <<>>)
    /\ nops' = nops + 1
    /\ UNCHANGED <<ds, memory, call>>

\* dataset.quick_remove_at(i) of a caller that holds no generator
DoQuickRemoveAt == QuickRemoveAtCall /\ UNCHANGED iter

\* dataset.defrag(output_file)
Defrag(output_file) ==
    /\ nops < MaxOps
    /\ LET r == Dataset_defrag(fs, ds, output_file)
       IN  /\ fs' = r.fs
           /\ alist' = IF output_file # ds.path /\ splitext_idx(output_file) # ds.index_path
                       THEN alist ELSE [valid |-> FALSE, items |-> <<>>]
           /\ last' = Op("defrag", r.ok, r.err, SeenLen(fs, ds), 0, <<>>, output_file, <<>>)
    /\ nops' = nops + 1
    /\ UNCHANGED <<ds, memory, call, iter>>

\* defrag into a pair of its own
DoDefrag == Defrag(OUT)

\* defrag onto the dataset's own log, or onto a log whose index path is the dataset's
DoDefragOnto == \E output_file \in {PATH, "d.bin"} : Defrag(output_file)

Next == Build \/ DoAppend \/ DoQuickRemoveAt \/ DoDefrag

Spec == Init /\ [][Next]_vars

NextAny == Build \/ DoAppend \/ DoQuickRemoveAt \/ DoDefrag \/ DoDefragOnto

SpecAny == Init /\ [][NextAny]_vars

----------------------------------------------------------------------------
(* Callers whose encoders can fail, and handles opened without encoders:   *)
(* the pair is built over whatever the paths hold, any number of times.    *)

\* a record whose last field holds a lone surrogate: str.encode raises on it
Unencodable(codecs) ==
    CASE codecs = <<>>             -> {}
      [] codecs = <<"str">>        -> {<< <<55296>> >>}
      [] codecs = <<"int", "str">> -> {<<1, <<55296>>>>}

AnyRecords(codecs) == Records(codecs) \cup Unencodable(codecs)

\* lists of up to MaxBuild records; a record no encoder accepts ends its list,
\* because make_dataset never looks at what follows it
AnyRecordLists(codecs) ==
    RecordLists(codecs) \cup
    {Append(recs, bad) : recs \in {r \in RecordLists(codecs) : Len(r) < MaxBuild},
                         bad \in Unencodable(codecs)}

\* the codec list the dataset's files are written with
codecs == Val(ds.deserializers)

\* No operation of this specification reads a record back, so the size of the
\* read buffer plays no part in it.
InitErr ==
    /\ fs = [q \in {} |-> <<>>]
    /\ ds \in {Dataset(PATH, Some(c), Some(c)) : c \in CodecLists}
             \cup {Dataset(PATH, Some(c), None) : c \in CodecLists}
    /\ alist = [valid |-> TRUE, items |-> <<>>]
    /\ last = [op |-> "init", ok |-> TRUE, err |-> "", n |-> 0, i |-> 0,
               items |-> <<>>, out |-> "", recs |-> <<>>, prev |-> ""]
    /\ nops = 0
    /\ memory = "ample"
    /\ call = NoCall
    /\ iter = NoIter

\* make_dataset(records, "d.rec", serializers) over the pair as it is
BuildOver ==
    /\ nops < MaxErrOps
    /\ \E recs \in AnyRecordLists(codecs) :
          LET r == make_dataset(fs, ListIter(recs), ds.path, codecs, None)
          IN  /\ fs' = r.fs
              /\ alist' = [valid |-> r.ok, items |-> IF r.ok THEN recs ELSE <<>>]
              /\ last' = Op("build", r.ok, r.err, SeenLen(fs, ds), 0, <<>>, "", recs)
    /\ nops' = nops + 1
    /\ UNCHANGED <<ds, memory, call, iter>>

\* dataset.append(items), with or without encoders, of any record
AppendAny ==
    /\ nops < MaxErrOps
    /\ \E items \in AnyRecords(codecs) :
          LET r == Dataset_append(fs, ds, items)
          IN  /\ fs' = r.fs
              /\ alist' = IF alist.valid /\ r.ok
                          THEN [alist EXCEPT !.items = Append(@, items)]
                          ELSE [valid |-> FALSE, items |-> <<>>]
              /\ last' = Op("append", r.ok, r.err, SeenLen(fs, ds), 0, items, "", <<>>)
    /\ nops' = nops + 1
    /\ UNCHANGED <<ds, memory, call, iter>>

\* dataset.quick_remove_at(i) between them
QuickRemoveAtAny == nops < MaxErrOps /\ DoQuickRemoveAt

NextErr == BuildOver \/ AppendAny \/ QuickRemoveAtAny

SpecErr == InitErr /\ [][NextErr]_vars

----------------------------------------------------------------------------
(* A caller of IndexFile alone: write, append, set and quick_remove_at on  *)
(* the file d.idx.  alist is the list of offsets the caller believes the   *)
(* file to hold, valid while every set and removal was in range.           *)

IDX == "d.idx"
Offsets == {1024, 1049}
OffsetLists == UNION {[1..k -> Offsets] : k \in 0..MaxBuild}

InitIndex ==
    /\ fs = [q \in {} |-> <<>>]
    /\ ds = Dataset(PATH, None, None)
    /\ alist = [valid |-> TRUE, items |-> <<>>]
    /\ last = [op |-> "init", ok |-> TRUE, err |-> "", n |-> 0, i |-> 0,
               items |-> <<>>, out |-> "", recs |-> <<>>, prev |-> ""]
    /\ nops = 0
    /\ memory = "ample"
    /\ call = NoCall
    /\ iter = NoIter

\* the stored count a caller sees (-1 when __len__ raises)
SeenCount(f) == LET l == IndexFile_len(f, IDX) IN IF l.ok THEN l.n ELSE -1

\* IndexFile("d.idx").write(offsets)
IdxWrite ==
    /\ nops < MaxOps
    /\ \E offsets \in OffsetLists :
          /\ fs' = IndexFile_write(fs, IDX, offsets)
          /\ alist' = [valid |-> TRUE, items |-> offsets]
          /\ last' = Op("write", TRUE, "", SeenCount(fs), 0, <<>>, "", offsets)
    /\ nops' = nops + 1
    /\ UNCHANGED <<ds, memory, call, iter>>

\* IndexFile("d.idx").append(offset)
IdxAppend ==
    /\ nops < MaxOps
    /\ \E offset \in Offsets :
          LET r == IndexFile_append(fs, IDX, offset)
          IN  /\ fs' = r.fs
              /\ alist' = IF alist.valid /\ r.ok
                          THEN [alist EXCEPT !.items = Append(@, offset)]
                          ELSE [valid |-> FALSE, items |-> <<>>]
              /\ last' = Op("append", r.ok, r.err, SeenCount(fs), 0, <<offset>>, "", <<>>)
    /\ nops' = nops + 1
    /\ UNCHANGED <<ds, memory, call, iter>>

\* IndexFile("d.idx")[i] = v, for every position below the stored count
IdxSet ==
    /\ nops < MaxOps
    /\ \E i \in 0..(SeenCount(fs) - 1), v \in Offsets :
          LET r == IndexFile_setitem(fs, IDX, i, v)
          IN  /\ fs' = r.fs
              /\ alist' = IF alist.valid /\ r.ok
                          THEN [alist EXCEPT !.items[i + 1] = v]
                          ELSE [valid |-> FALSE, items |-> <<>>]
              /\ last' = Op("set", r.ok, r.err, SeenCount(fs), i, <<v>>, "", <<>>)
    /\ nops' = nops + 1
    /\ UNCHANGED <<ds, memory, call, iter>>

\* IndexFile("d.idx").quick_remove_at(i), for every position and the two past
\* the end
IdxQuickRemoveAt ==
    /\ nops < MaxOps
    /\ \E i \in 0..(Max(SeenCount(fs), 0) + 1) :
          LET r == IndexFile_quick_remove_at(fs, IDX, i)
          IN  /\ fs' = r.fs
              /\ alist' = IF alist.valid /\ r.ok /\ i < Len(alist.items)
                          THEN [alist EXCEPT !.items = swap_remove(@, i)]
                          ELSE [valid |-> FALSE, items |-> <<>>]
              /\ last' = Op("quick_remove_at", r.ok, r.err, SeenCount(fs), i, <<>>, "", <<>>)
    /\ nops' = nops + 1
    /\ UNCHANGED <<ds, memory, call, iter>>

NextIndex == IdxWrite \/ IdxAppend \/ IdxSet \/ IdxQuickRemoveAt

SpecIndex == InitIndex /\ [][NextIndex]_vars

----------------------------------------------------------------------------
(* IndexedRecordDataset.append run one file write at a time.  The disk is  *)
(* shown as it is after each write has reached it: io.seek flushes the     *)
(* writer's buffer, and so does the close that ends a with block.          *)

\* lines 185-198: the log is recreated or kept, the record is encoded, the log
\* is opened "a+b" and io.tell() gives the offset of the block to come
AppendBegin ==
    /\ call.pc = "idle"
    /\ nops < MaxOps
    /\ \E items \in Records(codecs) :
          LET l == IF isfile(fs, ds.path) THEN Dataset_len(fs, ds)
                   ELSE [ok |-> TRUE, err |-> "", n |-> 0]
              reset == IF ~isfile(fs, ds.path) \/ l.n = 0
                       THEN put(fs, ds.path, RESERVED_BYTES) ELSE fs
              err == IF ~l.ok THEN l.err
                     ELSE IF IsNone(ds.serializers) THEN "AssertionError"
                     ELSE encode_err(Val(ds.serializers), items)
          IN  IF err # ""
              THEN /\ fs' = IF l.ok THEN reset ELSE fs
                   /\ call' = NoCall
                   /\ alist' = [valid |-> FALSE, items |-> <<>>]
                   /\ last' = Op("append", FALSE, err, SeenLen(fs, ds), 0, items, "", <<>>)
              ELSE /\ fs' = reset
                   /\ call' = [pc |-> "opened", items |-> items,
                               idx |-> Len(reset[ds.path]), before |-> fs]
                   /\ UNCHANGED <<alist, last>>
    /\ nops' = nops + 1
    /\ UNCHANGED <<ds, memory, iter>>

\* IndexFile.append lines 46-52: the index is opened ("wb" empties it), the
\* count is written at 0 and the seek to the end flushes it
AppendCount ==
    /\ call.pc = "opened"
    /\ LET l == IndexFile_len(fs, ds.index_path)
           opened == IF l.n = 0 THEN <<>> ELSE fs[ds.index_path]
       IN  IF ~l.ok
           THEN /\ call' = NoCall
                /\ alist' = [valid |-> FALSE, items |-> <<>>]
                /\ last' = Op("append", FALSE, l.err, SeenLen(call.before, ds), 0,
                              call.items, "", <<>>)
                /\ UNCHANGED fs
           ELSE /\ fs' = put(fs, ds.index_path, write_at(opened, 0, pack_Q(l.n + 1)))
                /\ call' = [call EXCEPT !.pc = "counted"]
                /\ UNCHANGED <<alist, last>>
    /\ UNCHANGED <<ds, memory, iter, nops>>

\* IndexFile.append lines 53-55: the entry is written at the end and the close
\* of the index flushes it
AppendEntry ==
    /\ call.pc = "counted"
    /\ fs' = put(fs, ds.index_path,
                 write_at(fs[ds.index_path], Len(fs[ds.index_path]), pack_Q(call.idx)))
    /\ call' = [call EXCEPT !.pc = "indexed"]
    /\ UNCHANGED <<ds, memory, iter, nops, alist, last>>

\* lines 200-203: the headers and payloads are written, and the close of the
\* log flushes them
AppendWrite ==
    /\ call.pc = "indexed"
    /\ fs' = put(fs, ds.path,
                 fs[ds.path] \o record_block(Val(ds.serializers), call.items))
    /\ call' = NoCall
    /\ alist' = IF alist.valid
                THEN [alist EXCEPT !.items = Append(@, call.items)]
                ELSE [valid |-> FALSE, items |-> <<>>]
    /\ last' = Op("append", TRUE, "", SeenLen(call.before, ds), 0, call.items, "", <<>>)
    /\ UNCHANGED <<ds, memory, iter, nops>>

\* the other operations run between two appends, never inside one
BuildIdle == call.pc = "idle" /\ Build
QuickRemoveAtIdle == call.pc = "idle" /\ DoQuickRemoveAt

NextSteps ==
    \/ BuildIdle \/ QuickRemoveAtIdle
    \/ AppendBegin \/ AppendCount \/ AppendEntry \/ AppendWrite

SpecSteps == Init /\ [][NextSteps]_vars

----------------------------------------------------------------------------
(* A caller that iterates while it appends and removes.  iter is the       *)
(* generator it holds: its fixed range 0..n-1, its next position i, what   *)
(* it has yielded (seen), what the iteration before it yielded when        *)
(* nothing changed since (again), the positions that now hold a record     *)
(* appended after it was created (new), and whether a removal or any       *)
(* mutation ran since.                                                     *)

\* iter(dataset), once the caller holds no running generator
IterStart ==
    /\ iter.state # "live"
    /\ nops < MaxOps
    /\ LET l == Dataset_len(fs, ds)
       IN  /\ iter' = IF l.ok
                      THEN [state |-> "live", n |-> l.n, i |-> 0, seen |-> <<>>,
                            again |-> IF iter.state = "done" /\ ~iter.mutated
                                      THEN Some(iter.seen) ELSE None,
                            new |-> {}, removed |-> FALSE, mutated |-> FALSE]
                      ELSE NoIter
           /\ last' = Op("iter", l.ok, l.err, SeenLen(fs, ds), 0, <<>>, "", <<>>)
    /\ nops' = nops + 1
    /\ UNCHANGED <<fs, ds, alist, memory, call>>

\* next(it): a record, StopIteration at the end of the range, or the exception
\* of self[i], after which the generator is finished
IterStep ==
    /\ iter.state = "live"
    /\ LET r == Dataset_next(fs, ds, iter.n, iter.i)
       IN  /\ iter' = IF r.ok
                      THEN [iter EXCEPT !.i = @ + 1, !.seen = Append(@, r.items)]
                      ELSE [iter EXCEPT !.state = IF r = StopIteration
                                                 THEN "done" ELSE "failed"]
           /\ last' = Op("next", r.ok, r.err, SeenLen(fs, ds), iter.i, r.items, "", <<>>)
    /\ UNCHANGED <<fs, ds, alist, memory, call, nops>>

\* dataset.append(items) while the generator is held
IterAppend ==
    /\ AppendCall
    /\ iter' = IF iter.state = "live"
               THEN [iter EXCEPT !.mutated = TRUE,
                                 !.new = IF last'.ok THEN @ \cup {last'.n} ELSE @]
               ELSE [iter EXCEPT !.mutated = TRUE]

\* dataset.quick_remove_at(i) while the generator is held: the last position's
\* record moves to position i, or is dropped
IterQuickRemoveAt ==
    /\ QuickRemoveAtCall
    /\ LET p == last'.n - 1
           i == last'.i
           moved == IF i < p /\ p \in iter.new THEN {i} ELSE {}
       IN  iter' = IF iter.state = "live"
                   THEN [iter EXCEPT !.mutated = TRUE, !.removed = TRUE,
                                     !.new = IF last'.ok THEN (@ \ {i, p}) \cup moved
                                             ELSE {}]
                   ELSE [iter EXCEPT !.mutated = TRUE]

NextIter == Build \/ IterStart \/ IterStep \/ IterAppend \/ IterQuickRemoveAt

SpecIter == Init /\ [][NextIter]_vars

----------------------------------------------------------------------------
(* What a caller observes                                                  *)

Got(items) == [ok |-> TRUE, err |-> "", items |-> items]
Length(n) == [ok |-> TRUE, err |-> "", n |-> n]

get(f, j) == Dataset_getitem(f, ds, j)
length(f) == Dataset_len(f, ds)

\* the offset the index holds for position j
offset_of(f, j) == IndexFile_getitem(f, ds.index_path, j).offset

RECURSIVE Sum(_)
Sum(ns) == IF ns = <<>> THEN 0 ELSE Head(ns) + Sum(Tail(ns))

\* size of the block whose header starts at pos, in a log of records of N fields
block_size(data, pos, N) ==
    8 * N + Sum([k \in 1..N |-> unpack_Q(read_at(data, pos + 8 * (k - 1), 8))])

\* the starts of the blocks that lie back to back in the log after the header
RECURSIVE block_starts(_, _, _)
block_starts(data, pos, N) ==
    IF pos >= Len(data) THEN {}
    ELSE {pos} \cup block_starts(data, pos + block_size(data, pos, N), N)

\* bytes of the log that belong to no indexed record
orphaned(f) ==
    Len(f[ds.path]) - RESERVED_SPACE
      - Sum([j \in 1..length(f).n |-> block_size(f[ds.path], offset_of(f, j - 1), arity)])

----------------------------------------------------------------------------
(* C1: a dataset built from a list of records returns, at positions 0..n-1,*)
(* exactly the records of the list in the list's order.                    *)
C1_RoundTrip ==
    last.op = "build" =>
        /\ last.ok
        /\ \A j \in 1..Len(last.recs) : get(fs, j - 1) = Got(last.recs[j])

C1_Witness ==
    /\ last.op = "build" /\ last.ok
    /\ arity = 2
    /\ Len(last.recs) = 2
    /\ last.recs[1] # last.recs[2]
    /\ get(fs, 1) = Got(last.recs[2])

(* C2: after a successful append(x) on a dataset of length n, get(n) is x, *)
(* the length is n+1 and every position below n returns the record it      *)
(* returned before the call.                                               *)
C2_AppendThenRead ==
    [][(last'.op = "append" /\ last'.ok) =>
          LET n == length(fs) IN
          /\ n.ok
          /\ length(fs') = Length(n.n + 1)
          /\ get(fs', n.n) = Got(last'.items)
          /\ \A j \in 0..(n.n - 1) : get(fs, j).ok /\ get(fs', j) = get(fs, j)]_vars

\* an append onto a dataset whose only record has just been removed
C2_Witness ==
    /\ last.op = "append" /\ last.ok
    /\ last.prev = "quick_remove_at" /\ alist.valid
    /\ last.n = 0
    /\ arity = 2
    /\ get(fs, 0) = Got(last.items)

(* C3: quick_remove_at(i) with i < n moves the record of position n-1 to   *)
(* position i when i < n-1, and leaves every other position below n-1 as   *)
(* it was.                                                                 *)
C3_SwapRemoval ==
    [][(last'.op = "quick_remove_at" /\ last'.i < length(fs).n) =>
          LET n == length(fs).n
              i == last'.i
          IN
          /\ last'.ok
          /\ i < n - 1 => get(fs, n - 1).ok /\ get(fs', i) = get(fs, n - 1)
          /\ \A j \in 0..(n - 2) : j # i => get(fs, j).ok /\ get(fs', j) = get(fs, j)]_vars

C3_Witness ==
    /\ last.op = "quick_remove_at" /\ last.ok
    /\ last.n = 3 /\ last.i = 0
    /\ get(fs, 0).ok /\ get(fs, 1).ok
    /\ get(fs, 0) # get(fs, 1)
    /\ offset_of(fs, 0) > offset_of(fs, 1)

(* C4: as long as every removal was in range, the dataset is the abstract  *)
(* list: same length, same record at every position.                      *)
C4_AbstractList ==
    alist.valid =>
        /\ length(fs) = Length(Len(alist.items))
        /\ \A j \in 1..Len(alist.items) : get(fs, j - 1) = Got(alist.items[j])

\* the log holds an orphaned block and its physical order is not the list's
C4_Witness ==
    /\ alist.valid
    /\ nops >= 3
    /\ Len(alist.items) = 2
    /\ alist.items[1] # alist.items[2]
    /\ orphaned(fs) > 0
    /\ offset_of(fs, 0) > offset_of(fs, 1)

IsPrefix(a, b) == Len(a) <= Len(b) /\ SubSeq(b, 1, Len(a)) = a

\* the dataset an application opens on the pair that defrag(OUT) returned
compacted == Dataset(OUT, ds.deserializers, ds.serializers)

\* positions probed past the end of the dataset
MaxIndex == MaxBuild + MaxOps + 1

(* C5: defrag leaves the source pair as it was, whatever output path it is *)
(* given.  Stated for a dataset that holds at least one record.            *)
C5_DefragLeavesSource ==
    [][(last'.op = "defrag" /\ length(fs).ok /\ length(fs).n >= 1) =>
          /\ isfile(fs', ds.path) /\ fs'[ds.path] = fs[ds.path]
          /\ isfile(fs', ds.index_path) /\ fs'[ds.index_path] = fs[ds.index_path]
          /\ length(fs') = length(fs)
          /\ \A j \in 0..(length(fs).n - 1) : get(fs', j) = get(fs, j)]_vars

(* C6: a successful defrag(out) yields a dataset of the source's length    *)
(* and records, in the source's order, whose log is no longer than the     *)
(* source's and shorter when the source's log held orphaned bytes.         *)
C6_CompactionFidelity ==
    [][(last'.op = "defrag" /\ last'.ok) =>
          LET n == length(fs) IN
          /\ n.ok
          /\ Dataset_len(fs', compacted) = n
          /\ \A j \in 0..(n.n - 1) :
                get(fs, j).ok /\ Dataset_getitem(fs', compacted, j) = get(fs, j)
          /\ isfile(fs, ds.path) =>
                /\ Len(fs'[OUT]) <= Len(fs[ds.path])
                /\ orphaned(fs) > 0 => Len(fs'[OUT]) < Len(fs[ds.path])]_vars

C6_Witness ==
    /\ last.op = "defrag" /\ last.ok
    /\ last.prev = "quick_remove_at"
    /\ length(fs) = Length(2)
    /\ orphaned(fs) > 0
    /\ offset_of(fs, 0) > offset_of(fs, 1)
    /\ Len(fs[OUT]) < Len(fs[ds.path])
    /\ Dataset_getitem(fs, compacted, 0) = get(fs, 0)

(* C7: with arity >= 1 and removals in range, the index file holds as many *)
(* entries as the dataset is long, and every offset is at least 1024,      *)
(* below the log's size and the start of a block of the log.               *)
C7_IndexValid ==
    (alist.valid /\ arity >= 1) =>
        LET n == length(fs) IN
        /\ n = Length(Len(alist.items))
        /\ isfile(fs, ds.index_path) => Len(fs[ds.index_path]) = 8 + 8 * n.n
        /\ \A j \in 0..(n.n - 1) :
              LET o == IndexFile_getitem(fs, ds.index_path, j) IN
              /\ o.ok
              /\ o.offset >= RESERVED_SPACE
              /\ o.offset < Len(fs[ds.path])
              /\ o.offset \in block_starts(fs[ds.path], RESERVED_SPACE, arity)

C7_Witness ==
    /\ alist.valid /\ arity >= 1
    /\ last.op = "quick_remove_at" /\ last.ok
    /\ length(fs) = Length(2)
    /\ orphaned(fs) > 0
    /\ offset_of(fs, 0) > offset_of(fs, 1)
    /\ offset_of(fs, 0) \in block_starts(fs[ds.path], RESERVED_SPACE, arity)

C9_BoundsChecked ==
    LET n == length(fs) IN
    \A i \in 0..MaxIndex :
        /\ (n.ok /\ i >= n.n) => get(fs, i) = NoItems("AssertionError")
        /\ ~n.ok => ~get(fs, i).ok

\* the position of a record that has just been removed
C9_Witness ==
    /\ last.op = "quick_remove_at" /\ last.ok
    /\ last.n = 3 /\ last.i = 2
    /\ length(fs) = Length(2)
    /\ get(fs, 1).ok
    /\ get(fs, 2) = NoItems("AssertionError")

(* C10: a build from n records gives length n, a successful append adds 1, *)
(* a quick_remove_at(i) with i < length() succeeds and takes 1, and the    *)
(* length is 0 while the index file does not exist.                        *)
C10_LengthAccounting ==
    [][/\ (last'.op = "build" /\ last'.ok) => length(fs') = Length(Len(last'.recs))
       /\ (last'.op = "append" /\ last'.ok) =>
             length(fs).ok /\ length(fs') = Length(length(fs).n + 1)
       /\ (last'.op = "quick_remove_at" /\ length(fs).ok /\ last'.i < length(fs).n) =>
             last'.ok /\ length(fs') = Length(length(fs).n - 1)
       /\ ~isfile(fs', ds.index_path) => length(fs') = Length(0)]_vars

C10_Witness ==
    /\ last.op = "quick_remove_at" /\ last.ok
    /\ last.prev = "append"
    /\ last.n = 3 /\ last.i = 1
    /\ length(fs) = Length(2)

(* C11: a successful append(x) on a dataset whose index reports length 0   *)
(* (index file missing, or stored count 0) leaves the log as the 1024      *)
(* reserved zero bytes followed by the block of x, whatever the log held   *)
(* before, and the index as the count 1 and the single offset 1024.        *)
C11_EmptyIndexRecreatesLog ==
    [][(last'.op = "append" /\ last'.ok /\ length(fs) = Length(0)) =>
          /\ fs'[ds.path] =
                RESERVED_BYTES \o record_block(Val(ds.serializers), last'.items)
          /\ fs'[ds.index_path] = pack_Q(1) \o pack_Q(RESERVED_SPACE)
          /\ length(fs') = Length(1)
          /\ get(fs', 0) = Got(last'.items)]_vars

\* an append after a build that failed: the log held the blocks written before
\* the failure, and no index file listed them
C11_Witness ==
    /\ last.op = "append" /\ last.ok
    /\ last.prev = "build" /\ ~alist.valid
    /\ last.n = 0
    /\ arity = 2
    /\ fs[ds.index_path] = pack_Q(1) \o pack_Q(RESERVED_SPACE)
    /\ Len(fs[ds.path]) = RESERVED_SPACE + 16 + 8 + Len(utf8_encode(last.items[2]))

\* the records of a list that make_dataset writes before an encoder raises
RECURSIVE encodable_prefix(_, _)
encodable_prefix(serializers, recs) ==
    IF recs = <<>> \/ encode_err(serializers, Head(recs)) # "" THEN <<>>
    ELSE <<Head(recs)>> \o encodable_prefix(serializers, Tail(recs))

\* the log a build leaves when it wrote exactly the records of recs
log_of(serializers, recs) ==
    RESERVED_BYTES \o Concat([k \in 1..Len(recs) |-> record_block(serializers, recs[k])])

(* C12: a build whose encoder fails on the k-th record, over any prior     *)
(* state of the two paths, surfaces the error, leaves the log as the       *)
(* reserved header and the complete blocks of the k-1 records before it,   *)
(* and leaves no index file at the index path.                             *)
C12_FailedBuildLeavesNoIndex ==
    [][(last'.op = "build" /\ ~last'.ok) =>
          /\ last'.err \in {"struct.error", "UnicodeEncodeError"}
          /\ fs'[ds.path] = log_of(codecs, encodable_prefix(codecs, last'.recs))
          /\ ~isfile(fs', ds.index_path)]_vars

(* C13: append on a dataset constructed without encoders fails with the    *)
(* missing-codec error and leaves the index file unchanged; the log is     *)
(* unchanged when it exists and length() > 0, and is otherwise left as     *)
(* exactly the 1024 reserved bytes.                                        *)
C13_AppendWithoutEncoders ==
    [][(last'.op = "append" /\ IsNone(ds.serializers)) =>
          /\ ~last'.ok /\ last'.err = "AssertionError"
          /\ isfile(fs', ds.index_path) = isfile(fs, ds.index_path)
          /\ isfile(fs, ds.index_path) => fs'[ds.index_path] = fs[ds.index_path]
          /\ IF isfile(fs, ds.path) /\ length(fs).ok /\ length(fs).n > 0
             THEN fs'[ds.path] = fs[ds.path]
             ELSE fs'[ds.path] = RESERVED_BYTES]_vars

\* the positions whose entry the index file shows: below the stored count, with
\* their 8 bytes on disk
visible(f) ==
    {j \in 0..(SeenLen(f, ds) - 1) : IndexFile_getitem(f, ds.index_path, j).ok}

\* the log holds a whole block at offset o: its arity lengths and their payloads
block_present(f, o) ==
    /\ isfile(f, ds.path)
    /\ o + 8 * arity <= Len(f[ds.path])
    /\ o + block_size(f[ds.path], o, arity) <= Len(f[ds.path])
    /\ arity >= 1 => o < Len(f[ds.path])

(* C14: between the file writes of an append, every offset that the index  *)
(* shows points at a block that the log already holds whole.               *)
C14_IndexedBlocksPresent ==
    call.pc # "idle" =>
        \A j \in visible(fs) : block_present(fs, offset_of(fs, j))

(* C15: after a successful build from records r_0..r_(n-1) of k fields the *)
(* log is 1024 zero bytes and then the n blocks back to back in input      *)
(* order, each the k little-endian u64 field lengths and then the k        *)
(* payloads; the index holds n offsets, the first 1024, each next one the  *)
(* one before plus 8k plus the field lengths of its record; the log ends   *)
(* where the last block ends (at 1024 when n = 0).                         *)
C15_BuilderLayout ==
    (last.op = "build" /\ last.ok) =>
        LET n == Len(last.recs)
            k == arity
            log == fs[ds.path]
            payloads(i) == [f \in 1..k |-> serialize(codecs[f], last.recs[i + 1][f])]
            lens(i) == [f \in 1..k |-> Len(payloads(i)[f])]
            size(i) == 8 * k + Sum(lens(i))
            off(i) == offset_of(fs, i)
        IN
        /\ read_at(log, 0, RESERVED_SPACE) = [b \in 1..RESERVED_SPACE |-> 0]
        /\ length(fs) = Length(n)
        /\ Len(fs[ds.index_path]) = 8 + 8 * n
        /\ n > 0 => off(0) = RESERVED_SPACE
        /\ \A i \in 0..(n - 2) : off(i + 1) = off(i) + size(i)
        /\ \A i \in 0..(n - 1) : \A f \in 1..k :
              /\ le_value(read_at(log, off(i) + 8 * (f - 1), 8)) = lens(i)[f]
              /\ read_at(log, off(i) + 8 * k + Sum(SubSeq(lens(i), 1, f - 1)), lens(i)[f])
                    = payloads(i)[f]
        /\ Len(log) = IF n = 0 THEN RESERVED_SPACE ELSE off(n - 1) + size(n - 1)

\* a pair rebuilt over an earlier one, from two records of different sizes
C15_Witness ==
    /\ last.op = "build" /\ last.ok
    /\ last.prev = "build"
    /\ arity = 2
    /\ Len(last.recs) = 2
    /\ last.recs[1] = <<1, <<97>>>>
    /\ last.recs[2] = <<300, <<233>>>>
    /\ offset_of(fs, 1) = RESERVED_SPACE + 25
    /\ Len(fs[ds.path]) = RESERVED_SPACE + 25 + 26

(* C16: quick_remove_at(i) with i < length() leaves the log, and every     *)
(* other file, byte for byte as it was, and changes nothing in the index   *)
(* file but the stored count, the entry of position i and the last entry,  *)
(* which is dropped.                                                       *)
C16_RemovalTouchesIndexOnly ==
    [][(last'.op = "quick_remove_at" /\ length(fs).ok /\ last'.i < length(fs).n) =>
          LET i == last'.i
              old == fs[ds.index_path]
              new == fs'[ds.index_path]
          IN
          /\ DOMAIN fs' = DOMAIN fs
          /\ \A q \in DOMAIN fs : q # ds.index_path => fs'[q] = fs[q]
          /\ isfile(fs, ds.path)
          /\ Len(new) = Len(old) - 8
          /\ \A b \in 9..Len(new) :
                (b <= 8 * (i + 1) \/ b > 8 * (i + 2)) => new[b] = old[b]]_vars

\* the first of two built records is removed: its block stays in the log
C16_Witness ==
    /\ last.op = "quick_remove_at" /\ last.ok
    /\ last.prev = "build"
    /\ last.n = 2 /\ last.i = 0
    /\ arity = 2
    /\ Len(fs[ds.index_path]) = 16
    /\ offset_of(fs, 0) > RESERVED_SPACE
    /\ orphaned(fs) = offset_of(fs, 0) - RESERVED_SPACE

(* C17: after every operation of a sequence of write, append, set(i, v)    *)
(* with i < length() and quick_remove_at(i) with i < length(), the index   *)
(* file holds exactly 8 + 8N bytes, N being the count it stores, and its   *)
(* entries are the caller's list.                                          *)
C17_IndexFileSize ==
    (alist.valid /\ last.op # "init") =>
        /\ isfile(fs, IDX)
        /\ IndexFile_len(fs, IDX).ok
        /\ Len(fs[IDX]) = 8 + 8 * IndexFile_len(fs, IDX).n
        /\ IndexFile_len(fs, IDX).n = Len(alist.items)
        /\ \A j \in 1..Len(alist.items) :
              IndexFile_getitem(fs, IDX, j - 1).offset = alist.items[j]

\* the last entry is set after a removal that followed an append
C17_Witness ==
    /\ alist.valid
    /\ last.op = "set" /\ last.ok /\ last.prev = "quick_remove_at"
    /\ last.n = 2 /\ last.i = 1
    /\ Len(fs[IDX]) = 24
    /\ alist.items = <<1024, 1049>>

(* C18: quick_remove_at(i) on an index of n >= 1 entries with i >= n       *)
(* raises nothing, drops the last entry and takes 1 from the count: it     *)
(* leaves the index file that quick_remove_at(n-1) leaves.                 *)
C18_OutOfRangeRemoval ==
    [][(last'.op = "quick_remove_at" /\ SeenCount(fs) >= 1 /\ last'.i >= SeenCount(fs)) =>
          LET n == SeenCount(fs) IN
          /\ last'.ok
          /\ fs' = IndexFile_quick_remove_at(fs, IDX, n - 1).fs
          /\ Len(fs'[IDX]) = Len(fs[IDX]) - 8
          /\ IndexFile_len(fs', IDX) = Length(n - 1)
          /\ \A j \in 0..(n - 2) :
                /\ IndexFile_getitem(fs, IDX, j).ok
                /\ IndexFile_getitem(fs', IDX, j) = IndexFile_getitem(fs, IDX, j)]_vars

\* position n+1 of an index of two entries
C18_Witness ==
    /\ last.op = "quick_remove_at" /\ last.ok
    /\ last.n = 2 /\ last.i = 3
    /\ ~alist.valid
    /\ IndexFile_len(fs, IDX) = Length(1)
    /\ Len(fs[IDX]) = 16

(* C19: quick_remove_at(i) on an index whose file exists and stores the    *)
(* count 0 fails and leaves the file as it was: length() still returns 0   *)
(* and an append still works.                                              *)
C19_EmptyRemovalFailsCleanly ==
    [][(last'.op = "quick_remove_at" /\ isfile(fs, IDX) /\ SeenCount(fs) = 0) =>
          /\ ~last'.ok
          /\ fs' = fs
          /\ IndexFile_len(fs', IDX) = Length(0)
          /\ \A offset \in Offsets : IndexFile_append(fs', IDX, offset).ok]_vars

\* what a finished iteration must have yielded when nothing changed under it:
\* get(0..n-1) with n the length, the caller's list, and what the iteration
\* before it yielded
yielded_all(it) ==
    /\ length(fs) = Length(it.n)
    /\ Len(it.seen) = it.n
    /\ \A j \in 1..it.n : get(fs, j - 1) = Got(it.seen[j])
    /\ alist.valid => it.seen = alist.items
    /\ ~IsNone(it.again) => it.seen = Val(it.again)

(* C20 as claimed: a step of an iteration past its fixed range ends it; a  *)
(* step inside the range yields the record now at that position, or fails *)
(* with the bounds error when the position is at or past the current       *)
(* length; it never yields a record appended after the iteration was       *)
(* created; an iteration that ends with no mutation under it has yielded   *)
(* get(0..length()-1), and so did the one before it.                       *)
C20_IterationUnderMutation ==
    [][(last'.op = "next") =>
          LET i == iter.i
              cur == length(fs)
          IN
          /\ i >= iter.n => last'.err = "StopIteration" /\ iter'.state = "done"
          /\ i < iter.n =>
                \/ /\ last'.ok /\ cur.ok /\ i < cur.n
                   /\ alist.valid => last'.items = alist.items[i + 1]
                \/ /\ ~last'.ok /\ last'.err = "AssertionError"
                   /\ cur.ok /\ i >= cur.n
                   /\ iter'.state = "failed"
          /\ last'.ok => i \notin iter.new
          /\ (iter'.state = "done" /\ ~iter.mutated) => yielded_all(iter')]_vars

(* C20 as amended: as claimed, except that a record appended after the     *)
(* iteration was created is yielded when a removal has put it at a         *)
(* position of the fixed range (it is never yielded while no removal ran), *)
(* and that a step fails with the index's decoding error once a            *)
(* quick_remove_at on the empty index has left the index file without its  *)
(* count.                                                                  *)
C20_IterationUnderRemoval ==
    [][(last'.op = "next") =>
          LET i == iter.i
              cur == length(fs)
          IN
          /\ i >= iter.n => last'.err = "StopIteration" /\ iter'.state = "done"
          /\ i < iter.n =>
                \/ /\ last'.ok /\ cur.ok /\ i < cur.n
                   /\ alist.valid => last'.items = alist.items[i + 1]
                \/ /\ ~last'.ok /\ last'.err = "AssertionError"
                   /\ cur.ok /\ i >= cur.n
                   /\ iter'.state = "failed"
                \/ /\ ~last'.ok /\ last'.err = "struct.error"
                   /\ ~cur.ok /\ Len(fs[ds.index_path]) = 0
                   /\ iter'.state = "failed"
          /\ (last'.ok /\ ~iter.removed) => i \notin iter.new
          /\ (iter'.state = "done" /\ ~iter.mutated) => yielded_all(iter')]_vars

\* a step yields, inside the fixed range, a record appended after the iteration
\* was created
C20_Witness ==
    /\ last.op = "next" /\ last.ok
    /\ iter.state = "live" /\ iter.removed
    /\ last.i \in iter.new
    /\ alist.valid
    /\ last.items = alist.items[last.i + 1]
    /\ arity = 2

====
